---- MODULE Spec2Model ----
(***************************************************************************)
(* mamegrep, src/app.rs: the widget stack, the key dispatch of             *)
(* App::handle_key_event, the dirty flag and the render pass of App::render *)
(* and the loop of App::run, as a state machine.                           *)
(*                                                                         *)
(* One action is one step of App::run: the render before the loop, one     *)
(* iteration of the loop (an event read and handled to the end, the render *)
(* it causes included), or the exit after the loop.  The handlers are      *)
(* operators from an App record to the SET of App records the call can     *)
(* end in: the search and the terminal are outside the program and may     *)
(* fail, so a call has several outcomes.  A record whose err field is TRUE *)
(* is a call that returned Err; `?` passes it on untouched (Errs, Oks).    *)
(*                                                                         *)
(* Tree::render_lines is modelled apart (SpecLines): it draws the lines of *)
(* a search result on a canvas, and its one action is that call.           *)
(***************************************************************************)
EXTENDS Naturals, Sequences, FiniteSets

VARIABLES
  exit,           \* App.exit
  widgets,        \* App.widgets, bottom first
  grep,           \* AppState.grep: pattern, ignore_case, before_context, after_context
  new_widget,     \* AppState.new_widget: <<>> is None, <<w>> is Some(w)
  dirty,          \* AppState.dirty
  search_result,  \* AppState.search_result
  size,           \* App.terminal.size()
  pc,             \* where App::run is: "start", "loop", "done", "failed"
  ops,            \* the calls made by the last step of App::run, in order
  released,       \* how many times the terminal was released
  replay,         \* the scripted input of an end-to-end scenario, if any
  tree            \* Tree::render_lines on its own: the lines, the canvas drawn on

vars == <<exit, widgets, grep, new_widget, dirty, search_result, size, pc, ops,
          released, replay, tree>>

(***************************************************************************)
(* Bounds of the model.                                                    *)
(***************************************************************************)
\* longest pattern typed when the input is not scripted
MaxPat == 1
\* deepest stack an abstract widget may build (SpecDispatch only)
MaxDepth == 3
\* the non-empty terminal has Rows rows and Cols columns
Rows == 2
Cols == 3
\* Tree::render_lines: the longest line text, the most highlight spans of a
\* line, the most lines of a file, the widest line-number field
MaxText == 3
MaxSpans == 2
MaxLines == 2
MaxLineWidth == 2
\* the largest canvas Tree::render_lines draws on
CanvasRows == 3
CanvasCols == 9

(***************************************************************************)
(* Values.                                                                 *)
(***************************************************************************)
\* the value MainWidget toggles a context option to
ContextLines == 3

Front(s) == SubSeq(s, 1, Len(s) - 1)
Last(s) == s[Len(s)]
Range(s) == { s[i] : i \in 1..Len(s) }

\* Box<dyn Widget>: the concrete kind and an identity, unique among the
\* widgets alive at the same time
Widget(kind, id) == [kind |-> kind, id |-> id]
FreshId(ws) == CHOOSE n \in 0..Len(ws) :
                 /\ \A i \in 1..Len(ws) : ws[i].id # n
                 /\ \A m \in 0..Len(ws) : (\A i \in 1..Len(ws) : ws[i].id # m) => n <= m

TerminalSize(r, c) == [rows |-> r, cols |-> c]
Sizes == { TerminalSize(0, Cols), TerminalSize(Rows, 0), TerminalSize(Rows, Cols) }
TerminalSize_is_empty(sz) == sz.rows = 0 \/ sz.cols = 0

GrepOptions_default ==
  [pattern |-> <<>>, ignore_case |-> FALSE, before_context |-> 0, after_context |-> 0]

\* what GrepOptions::call can return: a result (which one depends on the
\* files searched, outside the program) or an error
SearchResult_default == "r0"
SearchResults == {"r0", "r1"}
GrepOptions_call == SearchResults \cup {"Err"}

\* what Terminal::draw_frame can return: TRUE is Ok, FALSE a device error
Terminal_draw_frame == BOOLEAN

\* the Terminal value is dropped: raw mode and the alternate screen are left
Terminal_drop == [op |-> "drop(terminal)", w |-> <<>>, res |-> "", pending |-> <<>>, arg |-> <<>>]

(***************************************************************************)
(* Events (crossterm::event::Event).                                       *)
(***************************************************************************)
SpecialKeys == {"Esc", "Enter", "Backspace", "Tab"}
ControlChars == {"^A"}
\* KeyCode::Char(c): the characters a free run types
Chars == {"q", "c", "/", "a", "b", "i"} \cup ControlChars
KeyCodes == Chars \cup SpecialKeys
KeyKinds == {"Press", "Release", "Repeat"}

IsChar(code) == code \notin SpecialKeys
is_control(c) == c \in ControlChars

NoSize == TerminalSize(0, 0)
KeyEvent(code, ctrl, kind) ==
  [type |-> "Key", code |-> code, ctrl |-> ctrl, kind |-> kind, size |-> NoSize]
ResizeEvent(sz) ==
  [type |-> "Resize", code |-> "", ctrl |-> FALSE, kind |-> "", size |-> sz]
OtherEvent(t) ==
  [type |-> t, code |-> "", ctrl |-> FALSE, kind |-> "", size |-> NoSize]

KeyEvents == { KeyEvent(c, m, k) : c \in KeyCodes, m \in BOOLEAN, k \in KeyKinds }
ResizeEvents == { ResizeEvent(sz) : sz \in Sizes }
OtherEvents == { OtherEvent(t) : t \in {"FocusGained", "FocusLost", "Mouse", "Paste"} }
Events == KeyEvents \cup ResizeEvents \cup OtherEvents

Press(code) == KeyEvent(code, FALSE, "Press")

(***************************************************************************)
(* The App record and the log of calls.                                    *)
(***************************************************************************)
\* op: what is called; w: the widget it is called on; res, pending: for a
\* handler's return, the value returned and the pending slot at that moment;
\* arg: for a search, the options it runs with
Entry(op, w, res, pending, arg) ==
  [op |-> op, w |-> w, res |-> res, pending |-> pending, arg |-> arg]
Call(op) == Entry(op, <<>>, "", <<>>, <<>>)
CallOn(op, w) == Entry(op, <<w>>, "", <<>>, <<>>)

Log(a, e) == [a EXCEPT !.ops = Append(@, e)]
LogSearch(a) == Log(a, Entry("GrepOptions::call", <<>>, "", <<>>, << a.grep >>))
Fail(a) == [a EXCEPT !.err = TRUE]

\* the `?` operator on the outcomes of a call: the Err ones are returned at
\* once, the Ok ones go on
Errs(S) == { x \in S : x.err }
Oks(S) == { x \in S : ~x.err }

App_new(sz) ==
  [exit |-> FALSE,
   widgets |-> << Widget("MainWidget", 0) >>,
   grep |-> GrepOptions_default,
   new_widget |-> <<>>,
   dirty |-> FALSE,
   search_result |-> SearchResult_default,
   size |-> sz,
   ops |-> <<>>,
   err |-> FALSE]

(***************************************************************************)
(* AppState::regrep and the widgets' key handlers.  A handler returns the  *)
(* set of its outcomes, each the App record after the call and the value   *)
(* returned (ret: TRUE is "remain active", FALSE is "finished").           *)
(***************************************************************************)
Returned(a, ret) == [a |-> a, ret |-> ret]

\* (mutant: the dirty mark is forgotten)
regrep_m(a) ==
  { IF r = "Err"
      THEN Fail(LogSearch(a))
      ELSE [LogSearch(a) EXCEPT !.search_result = r]
    : r \in GrepOptions_call }

\* self.search_result = self.grep.call().or_fail()?; self.dirty = true;
regrep(a) ==
  { IF r = "Err"
      THEN Fail(LogSearch(a))
      ELSE [LogSearch(a) EXCEPT !.search_result = r, !.dirty = TRUE]
    : r \in GrepOptions_call }

\* (mutant: the option is switched on and never off)
Toggle_m(n) == ContextLines
Toggle(n) == IF n = 0 THEN ContextLines ELSE 0

\* MainWidget's handler ends in Ok(true)
MainWidget_returns_m == FALSE
MainWidget_returns == TRUE

MainWidget_handle_key_event(a, ev) ==
  CASE ev.code = "/" ->
         { Returned([a EXCEPT !.new_widget =
                       << Widget("SearchPatternInputWidget", FreshId(a.widgets)) >>], MainWidget_returns) }
    [] ev.code = "a" ->
         { Returned(x, MainWidget_returns) : x \in regrep([a EXCEPT !.grep.after_context = Toggle(@)]) }
    [] ev.code = "b" ->
         { Returned(x, MainWidget_returns) : x \in regrep([a EXCEPT !.grep.before_context = Toggle(@)]) }
    [] ev.code = "i" ->
         { Returned(x, MainWidget_returns) : x \in regrep([a EXCEPT !.grep.ignore_case = ~@]) }
    [] OTHER -> { Returned(a, MainWidget_returns) }

\* (mutant: the first character is removed, not the last)
String_pop_m(s) == IF s = <<>> THEN s ELSE Tail(s)
String_pop(s) == IF s = <<>> THEN s ELSE Front(s)

\* (mutant: Enter searches and stays)
SearchPatternInputWidget_handle_key_event_m(a, ev) ==
  CASE ev.code = "Enter" ->
         { IF r = "Err"
             THEN Returned(Fail(LogSearch(a)), TRUE)
             ELSE Returned([LogSearch(a)
                              EXCEPT !.search_result = r, !.dirty = TRUE], TRUE)
           : r \in GrepOptions_call }
    [] IsChar(ev.code) /\ ~is_control(ev.code) ->
         { Returned([a EXCEPT !.grep.pattern = Append(@, ev.code), !.dirty = TRUE], TRUE) }
    [] ev.code = "Backspace" ->
         { Returned([a EXCEPT !.grep.pattern = String_pop(@), !.dirty = TRUE], TRUE) }
    [] OTHER -> { Returned(a, TRUE) }

\* (mutant: '/' in the pattern input opens a pattern input, as in the main view)
SearchPatternInputWidget_handle_key_event_m2(a, ev) ==
  CASE ev.code = "Enter" ->
         { IF r = "Err"
             THEN Returned(Fail(LogSearch(a)), FALSE)
             ELSE Returned([LogSearch(a)
                              EXCEPT !.search_result = r, !.dirty = TRUE], FALSE)
           : r \in GrepOptions_call }
    [] ev.code = "/" ->
         { Returned([a EXCEPT !.new_widget =
                       << Widget("SearchPatternInputWidget", FreshId(a.widgets)) >>], TRUE) }
    [] IsChar(ev.code) /\ ~is_control(ev.code) ->
         { Returned([a EXCEPT !.grep.pattern = Append(@, ev.code), !.dirty = TRUE], TRUE) }
    [] ev.code = "Backspace" ->
         { Returned([a EXCEPT !.grep.pattern = String_pop(@), !.dirty = TRUE], TRUE) }
    [] OTHER -> { Returned(a, TRUE) }

SearchPatternInputWidget_handle_key_event(a, ev) ==
  CASE ev.code = "Enter" ->
         { IF r = "Err"
             THEN Returned(Fail(LogSearch(a)), FALSE)
             ELSE Returned([LogSearch(a)
                              EXCEPT !.search_result = r, !.dirty = TRUE], FALSE)
           : r \in GrepOptions_call }
    [] IsChar(ev.code) /\ ~is_control(ev.code) ->
         { Returned([a EXCEPT !.grep.pattern = Append(@, ev.code), !.dirty = TRUE], TRUE) }
    [] ev.code = "Backspace" ->
         { Returned([a EXCEPT !.grep.pattern = String_pop(@), !.dirty = TRUE], TRUE) }
    [] OTHER -> { Returned(a, TRUE) }

\* Any other implementation of trait Widget (the stack holds Box<dyn Widget>):
\* its handler may return either value and may or may not leave a successor
\* in the pending slot.  No such widget is ever created by MainWidget or
\* SearchPatternInputWidget; it is on the stack only in SpecDispatch.
OtherWidget_handle_key_event(a, ev) ==
  { Returned(a, ret) : ret \in BOOLEAN }
  \cup
  { Returned([a EXCEPT !.new_widget = << Widget("OtherWidget", FreshId(a.widgets)) >>], ret)
    : ret \in { r \in BOOLEAN : ~r \/ Len(a.widgets) < MaxDepth } }

\* dynamic dispatch of widget.handle_key_event(&mut self.state, event), with
\* the call and its return written to the log
Widget_handle_key_event(w, a, ev) ==
  LET a0 == Log(a, CallOn("Widget::handle_key_event", w))
      outs == CASE w.kind = "MainWidget" -> MainWidget_handle_key_event(a0, ev)
                [] w.kind = "SearchPatternInputWidget" ->
                     SearchPatternInputWidget_handle_key_event(a0, ev)
                [] OTHER -> OtherWidget_handle_key_event(a0, ev)
  IN { Returned(Log(o.a, Entry("return", <<w>>,
                               IF o.a.err THEN "Err" ELSE IF o.ret THEN "true" ELSE "false",
                               o.a.new_widget, <<>>)),
                o.ret)
       : o \in outs }

(***************************************************************************)
(* App::render.                                                            *)
(***************************************************************************)
\* for widget in &self.widgets { widget.render(&self.state, &mut canvas)?; }
\* (MainWidget::render and SearchPatternInputWidget::render return Ok)
RECURSIVE RenderFrom(_, _)
RenderFrom(a, i) ==
  IF i > Len(a.widgets) THEN a
  ELSE RenderFrom(Log(a, CallOn("Widget::render", a.widgets[i])), i + 1)

RenderWidgets(a) == { RenderFrom(a, 1) }

\* (mutant: the legend of the bottom widget is drawn)
RenderLegend_m(a) ==
  { IF a.widgets # <<>> THEN Log(a, CallOn("Widget::render_legend", a.widgets[1])) ELSE a }

\* if let Some(widget) = self.widgets.last() { widget.render_legend(&mut canvas)?; }
RenderLegend(a) ==
  { IF a.widgets # <<>> THEN Log(a, CallOn("Widget::render_legend", Last(a.widgets))) ELSE a }

\* (mutant: the flag is not cleared)
DrawFrame_m(a) ==
  { IF ok
      THEN Log(Log(a, Call("Terminal::draw_frame")), Call("dirty = false"))
      ELSE Fail(Log(a, Call("Terminal::draw_frame")))
    : ok \in Terminal_draw_frame }

\* self.terminal.draw_frame(canvas.into_frame()).or_fail()?; self.state.dirty = false;
DrawFrame(a) ==
  { IF ok
      THEN [Log(Log(a, Call("Terminal::draw_frame")), Call("dirty = false"))
              EXCEPT !.dirty = FALSE]
      ELSE Fail(Log(a, Call("Terminal::draw_frame")))
    : ok \in Terminal_draw_frame }

NewCanvas(a) == { Log(a, Call("Canvas::new")) }

\* (mutant: only a terminal without rows counts as empty)
App_render_m(a) ==
  LET a0 == Log(a, Call("App::render"))
      s1 == NewCanvas(a0)
      s2 == Errs(s1) \cup UNION { RenderWidgets(x) : x \in Oks(s1) }
      s3 == Errs(s2) \cup UNION { RenderLegend(x) : x \in Oks(s2) }
  IN IF a0.size.rows = 0
       THEN { a0 }
       ELSE Errs(s3) \cup UNION { DrawFrame(x) : x \in Oks(s3) }

\* if self.terminal.size().is_empty() { return Ok(()); } ..
App_render(a) ==
  LET a0 == Log(a, Call("App::render"))
      s1 == NewCanvas(a0)
      s2 == Errs(s1) \cup UNION { RenderWidgets(x) : x \in Oks(s1) }
      s3 == Errs(s2) \cup UNION { RenderLegend(x) : x \in Oks(s2) }
  IN IF TerminalSize_is_empty(a0.size)
       THEN { a0 }
       ELSE Errs(s3) \cup UNION { DrawFrame(x) : x \in Oks(s3) }

(***************************************************************************)
(* App::handle_key_event and App::handle_event.                            *)
(***************************************************************************)
\* (mutant: Esc is left to the widget)
IsQuitKey_m(ev) ==
  \/ ev.code = "q"
  \/ ev.code = "c" /\ ev.ctrl

\* KeyCode::Char('q') | KeyCode::Esc, and KeyCode::Char('c') if ctrl
IsQuitKey(ev) ==
  \/ ev.code = "q"
  \/ ev.code = "Esc"
  \/ ev.code = "c" /\ ev.ctrl

\* (mutant: the pending widget is pushed before the finished one is popped)
PopAndPush_m(o) ==
  LET a1 == IF o.a.new_widget # <<>>
              THEN [Log(o.a, CallOn("push", o.a.new_widget[1]))
                      EXCEPT !.widgets = Append(@, o.a.new_widget[1]),
                             !.new_widget = <<>>,
                             !.dirty = TRUE]
              ELSE o.a
      a2 == IF ~o.ret
              THEN [Log(a1, Call("pop")) EXCEPT !.widgets = Front(@), !.dirty = TRUE]
              ELSE a1
  IN IF o.a.err THEN { o.a } ELSE { a2 }

\* (mutant: the Err of the handler is looked at after the pop and the push)
PopAndPush_m2(o) ==
  LET a1 == IF ~o.ret
              THEN [Log(o.a, Call("pop")) EXCEPT !.widgets = Front(@), !.dirty = TRUE]
              ELSE o.a
      a2 == IF a1.new_widget # <<>>
              THEN [Log(a1, CallOn("push", a1.new_widget[1]))
                      EXCEPT !.widgets = Append(@, a1.new_widget[1]),
                             !.new_widget = <<>>,
                             !.dirty = TRUE]
              ELSE a1
  IN { a2 }

\* (mutant: the pending widget is pushed and left in the slot)
PopAndPush_m3(o) ==
  LET a1 == IF ~o.ret
              THEN [Log(o.a, Call("pop")) EXCEPT !.widgets = Front(@), !.dirty = TRUE]
              ELSE o.a
      a2 == IF a1.new_widget # <<>>
              THEN [Log(a1, CallOn("push", a1.new_widget[1]))
                      EXCEPT !.widgets = Append(@, a1.new_widget[1]),
                             !.dirty = TRUE]
              ELSE a1
  IN IF o.a.err THEN { o.a } ELSE { a2 }

\* what follows the handler's return: the pop when it returned false, then
\* the push of the pending widget
PopAndPush(o) ==
  LET a1 == IF ~o.ret
              THEN [Log(o.a, Call("pop")) EXCEPT !.widgets = Front(@), !.dirty = TRUE]
              ELSE o.a
      a2 == IF a1.new_widget # <<>>
              THEN [Log(a1, CallOn("push", a1.new_widget[1]))
                      EXCEPT !.widgets = Append(@, a1.new_widget[1]),
                             !.new_widget = <<>>,
                             !.dirty = TRUE]
              ELSE a1
  IN IF o.a.err THEN { o.a } ELSE { a2 }

\* (mutant: the key goes to the bottom widget)
Dispatch_m(a, ev) ==
  IF a.widgets = <<>>
    THEN { a }
    ELSE UNION { PopAndPush(o) : o \in Widget_handle_key_event(a.widgets[1], a, ev) }

\* the `_ =>` arm
Dispatch(a, ev) ==
  IF a.widgets = <<>>
    THEN { a }
    ELSE UNION { PopAndPush(o) : o \in Widget_handle_key_event(Last(a.widgets), a, ev) }

\* if self.state.dirty { self.render().or_fail()?; }
RenderIfDirty(a) ==
  IF a.dirty
    THEN App_render(Log(a, Entry("if dirty", <<>>, "true", <<>>, <<>>)))
    ELSE { Log(a, Entry("if dirty", <<>>, "false", <<>>, <<>>)) }

\* (mutant: the kind of the key event is not looked at)
App_handle_key_event_m(a, ev) ==
  LET a0 == Log(a, Call("App::handle_key_event"))
      s1 == IF IsQuitKey(ev) THEN { [a0 EXCEPT !.exit = TRUE] } ELSE Dispatch(a0, ev)
  IN Errs(s1) \cup UNION { RenderIfDirty(x) : x \in Oks(s1) }

\* if event.kind != KeyEventKind::Press { return Ok(()); } match event.code ..
App_handle_key_event(a, ev) ==
  LET a0 == Log(a, Call("App::handle_key_event"))
      s1 == IF IsQuitKey(ev) THEN { [a0 EXCEPT !.exit = TRUE] } ELSE Dispatch(a0, ev)
  IN IF ev.kind # "Press"
       THEN { a0 }
       ELSE Errs(s1) \cup UNION { RenderIfDirty(x) : x \in Oks(s1) }

\* (mutant: a resize renders only when the flag is set)
App_handle_event_m(a, ev) ==
  CASE ev.type = "Key" -> App_handle_key_event(a, ev)
    [] ev.type = "Resize" -> RenderIfDirty(a)
    [] OTHER -> { a }

\* (mutant: an event that is no key and no resize goes through the dirty check)
App_handle_event_m2(a, ev) ==
  CASE ev.type = "Key" -> App_handle_key_event(a, ev)
    [] ev.type = "Resize" -> App_render(a)
    [] OTHER -> RenderIfDirty(a)

App_handle_event(a, ev) ==
  CASE ev.type = "Key" -> App_handle_key_event(a, ev)
    [] ev.type = "Resize" -> App_render(a)
    [] OTHER -> { a }

\* Terminal::next_event: the event read; a resize event carries the size
\* that Terminal::size returns from then on
Terminal_next_event(a, ev) ==
  LET a0 == Log(a, Call("Terminal::next_event"))
  IN IF ev.type = "Resize" THEN [a0 EXCEPT !.size = ev.size] ELSE a0

(***************************************************************************)
(* Token and Canvas (mame::terminal), as far as Tree::render_lines uses    *)
(* them: one character per column, the cursor moved by draw and newline    *)
(* only, cells outside the canvas dropped, a later write of a cell         *)
(* replacing an earlier one.  The canvas keeps a log of the calls made on  *)
(* it: the position written at, the token, the cursor after the call.      *)
(***************************************************************************)
TokenPosition(r, c) == [row |-> r, col |-> c]
Token_with_style(text, style) == [text |-> text, style |-> style]
Token_new(text) == Token_with_style(text, "Plain")

BlankCell == [ch |-> "", style |-> "Plain"]
Canvas_new(sz) ==
  [size |-> sz,
   cursor |-> TokenPosition(0, 0),
   cells |-> [p \in (0..(sz.rows - 1)) \X (0..(sz.cols - 1)) |-> BlankCell],
   log |-> <<>>]

Canvas_cursor(cv) == cv.cursor

\* one cell is written; a cell outside the canvas is dropped
Canvas_put(cv, r, c, cell) ==
  IF r < cv.size.rows /\ c < cv.size.cols
    THEN [cv EXCEPT !.cells[<<r, c>>] = cell]
    ELSE cv

RECURSIVE Canvas_write(_, _, _, _)
Canvas_write(cv, pos, tok, i) ==
  IF i > Len(tok.text) THEN cv
  ELSE Canvas_write(Canvas_put(cv, pos.row, pos.col + (i - 1),
                               [ch |-> tok.text[i], style |-> tok.style]),
                    pos, tok, i + 1)

CanvasCall(op, pos, tok, after) == [op |-> op, pos |-> pos, tok |-> tok, after |-> after]

Canvas_draw_at(cv, pos, tok) ==
  [Canvas_write(cv, pos, tok, 1)
     EXCEPT !.log = Append(@, CanvasCall("draw_at", pos, tok, cv.cursor))]

Canvas_draw(cv, tok) ==
  LET after == TokenPosition(cv.cursor.row, cv.cursor.col + Len(tok.text))
  IN [Canvas_write(cv, cv.cursor, tok, 1)
        EXCEPT !.cursor = after,
               !.log = Append(@, CanvasCall("draw", cv.cursor, tok, after))]

Canvas_newline(cv) ==
  LET after == TokenPosition(cv.cursor.row + 1, 0)
  IN [cv EXCEPT !.cursor = after,
                !.log = Append(@, CanvasCall("newline", cv.cursor, Token_new(<<>>), after))]

(***************************************************************************)
(* Tree::render_lines.  A text is the sequence of its characters.          *)
(***************************************************************************)
DigitChars == << "0", "1", "2", "3", "4", "5", "6", "7", "8", "9" >>
\* the decimal digits of n
RECURSIVE Digits(_)
Digits(n) ==
  IF n < 10 THEN << DigitChars[n + 1] >>
  ELSE Append(Digits(n \div 10), DigitChars[(n % 10) + 1])

\* {:>width$}: right-aligned in a field of width columns, never cut
RECURSIVE PadLeft(_, _)
PadLeft(t, width) == IF Len(t) >= width THEN t ELSE PadLeft(<< " " >> \o t, width)

\* format!("  [{:>width$}]", line.number, width = result.max_line_width)
Format_line_number(number, width) ==
  << " ", " ", "[" >> \o PadLeft(Digits(number), width) \o << "]" >>

\* line.text.chars().skip(skip).take(take).collect::<String>()
Chars_skip_take(text, skip, take) ==
  SubSeq(text, skip + 1, IF skip + take < Len(text) THEN skip + take ELSE Len(text))

\* result.highlight.lines.get(file).and_then(|v| v.get(&line.number)), or &[]
MatchedColumns(result, line) ==
  IF line.number \in DOMAIN result.highlight THEN result.highlight[line.number] ELSE <<>>

\* (mutant: the overlay starts at the span's offset from the left edge)
OverlayPosition_m(base, matched) == TokenPosition(base.row, matched.column_offset)

\* TokenPosition { row: base.row, col: base.col + matched.column_offset }
OverlayPosition(base, matched) ==
  TokenPosition(base.row, base.col + matched.column_offset)

\* for matched in matched_columns { .. canvas.draw_at(.., reverse) }
RECURSIVE DrawMatched(_, _, _, _, _)
DrawMatched(cv, base, line, matched_columns, j) ==
  IF j > Len(matched_columns) THEN cv
  ELSE LET matched == matched_columns[j]
           t == Chars_skip_take(line.text, matched.column_offset, matched.text_chars)
       IN DrawMatched(Canvas_draw_at(cv, OverlayPosition(base, matched),
                                     Token_with_style(t, "Reverse")),
                      base, line, matched_columns, j + 1)

\* the body of `for line in lines`
Tree_render_line(cv, result, line) ==
  LET cv1 == Canvas_draw(cv, Token_new(Format_line_number(line.number, result.max_line_width)))
      base == Canvas_cursor(cv1)
      cv2 == Canvas_draw(cv1, Token_new(line.text))
      cv3 == DrawMatched(cv2, base, line, MatchedColumns(result, line), 1)
  IN Canvas_newline(cv3)

RECURSIVE Tree_render_lines(_, _, _, _)
Tree_render_lines(cv, result, lines, i) ==
  IF i > Len(lines) THEN cv
  ELSE Tree_render_lines(Tree_render_line(cv, result, lines[i]), result, lines, i + 1)

(***************************************************************************)
(* The search results Tree::render_lines is given: the lines of one file,  *)
(* one of them with any text and any highlight, the others context lines   *)
(* or one-character matches.  The spans of a line lie inside its text, in  *)
(* order and apart, as the matches of a search do.                         *)
(***************************************************************************)
Letters == << "a", "b", "c", "d", "e", "f" >>
Texts == { SubSeq(Letters, 1, k) : k \in 0..MaxText }

Span(off, n) == [column_offset |-> off, text_chars |-> n]
SpansOf(text) ==
  { sp \in { Span(off, n) : off \in 0..MaxText, n \in 1..MaxText } :
      sp.column_offset + sp.text_chars <= Len(text) }
Highlights(text) ==
  { h \in UNION { [1..k -> SpansOf(text)] : k \in 0..MaxSpans } :
      \A j \in 1..Len(h) :
        j < Len(h) => h[j].column_offset + h[j].text_chars <= h[j + 1].column_offset }

MatchLine(number, text) == [number |-> number, text |-> text]
\* the line numbers of the free line: one digit, two digits
LineNumbers == { 7, 12 }
\* the other lines of the file
OtherLine(i) == MatchLine(i, << "z" >>)

\* n lines, the p-th of them free; max_line_width holds every line number
SearchResultLines ==
  { [lines |-> [i \in 1..n |-> IF i = p THEN MatchLine(number, text) ELSE OtherLine(i)],
     result |-> [highlight |->
                   [k \in {number} \cup (IF others THEN (1..n) \ {p} ELSE {}) |->
                      IF k = number THEN h ELSE << Span(0, 1) >>],
                 max_line_width |-> width]]
    : n \in 1..MaxLines, p \in 1..MaxLines, number \in LineNumbers, text \in Texts,
      h \in UNION { Highlights(t) : t \in Texts }, others \in BOOLEAN,
      width \in 1..MaxLineWidth }

WellFormed(sr) ==
  /\ \E p \in 1..Len(sr.lines) : sr.lines[p].number \in LineNumbers
  /\ \A i \in 1..Len(sr.lines) :
       /\ Len(Digits(sr.lines[i].number)) <= sr.result.max_line_width
       /\ MatchedColumns(sr.result, sr.lines[i]) \in Highlights(sr.lines[i].text)

CanvasSizes ==
  { TerminalSize(r, c) : r \in 1..CanvasRows, c \in { CanvasCols - 2, CanvasCols - 1, CanvasCols } }

\* the canvas as Tree::render finds it: new, or one line drawn (the cursor at
\* the start of the second row)
CanvasBefore(sz, header) ==
  IF header THEN [Canvas_newline(Canvas_new(sz)) EXCEPT !.log = <<>>] ELSE Canvas_new(sz)

NoTree ==
  [phase |-> "none", lines |-> <<>>,
   result |-> [highlight |-> <<>>, max_line_width |-> 0],
   canvas |-> Canvas_new(TerminalSize(1, 1))]

\* self.render_lines(canvas, cursor, result, file, lines)
TreeRenderLines ==
  /\ tree.phase = "input"
  /\ tree' = [tree EXCEPT !.phase = "drawn",
                          !.canvas = Tree_render_lines(tree.canvas, tree.result, tree.lines, 1)]
  /\ UNCHANGED <<exit, widgets, grep, new_widget, dirty, search_result, size, pc, ops,
                 released, replay>>

InitLines ==
  /\ \E sz \in CanvasSizes :
       LET a == App_new(sz)
       IN /\ exit = a.exit
          /\ widgets = a.widgets
          /\ grep = a.grep
          /\ new_widget = a.new_widget
          /\ dirty = a.dirty
          /\ search_result = a.search_result
          /\ size = a.size
  /\ pc = "start"
  /\ ops = <<>>
  /\ released = 0
  /\ replay = [script |-> <<>>, pos |-> 0, searches |-> 0]
  /\ \E sr \in SearchResultLines, header \in BOOLEAN :
       /\ WellFormed(sr)
       /\ tree = [phase |-> "input", lines |-> sr.lines, result |-> sr.result,
                  canvas |-> CanvasBefore(size, header)]

NextLines == TreeRenderLines

SpecLines == InitLines /\ [][NextLines]_vars

(***************************************************************************)
(* End-to-end scenarios (the key presses of scenarios A and B), replayed   *)
(* as the terminal's input and followed by a quit key.                     *)
(***************************************************************************)
ScenarioA == << Press("i"), Press("a"), Press("b") >>
ScenarioB == << Press("/"), Press("f"), Press("o"), Press("o"),
                Press("Backspace"), Press("Enter") >>
Scripts == { ScenarioA \o << Press("q") >>,
             ScenarioB \o << Press("q") >>,
             ScenarioB \o ScenarioA \o << Press("Esc") >> }

NoReplay == [script |-> <<>>, pos |-> 0, searches |-> 0]
Replays == { [script |-> s, pos |-> 0, searches |-> 0] : s \in Scripts }

RECURSIVE Count(_, _)
Count(log, op) ==
  IF log = <<>> THEN 0
  ELSE Count(Front(log), op) + (IF Last(log).op = op THEN 1 ELSE 0)

(***************************************************************************)
(* App::run.                                                               *)
(***************************************************************************)
\* the App as the step finds it, with an empty log
Cur ==
  [exit |-> exit, widgets |-> widgets, grep |-> grep, new_widget |-> new_widget,
   dirty |-> dirty, search_result |-> search_result, size |-> size,
   ops |-> <<>>, err |-> FALSE]

\* (mutant: an Err leaves App::run with the terminal still held)
Leave_m(a) ==
  /\ exit' = a.exit
  /\ widgets' = a.widgets
  /\ grep' = a.grep
  /\ new_widget' = a.new_widget
  /\ dirty' = a.dirty
  /\ search_result' = a.search_result
  /\ size' = a.size
  /\ pc' = IF a.err THEN "failed" ELSE "loop"
  /\ ops' = a.ops
  /\ released' = released
  /\ tree' = tree

\* the App as the step leaves it.  An Err leaves App::run through `?`: self
\* goes out of scope and the terminal is released with it.
Leave(a) ==
  /\ exit' = a.exit
  /\ widgets' = a.widgets
  /\ grep' = a.grep
  /\ new_widget' = a.new_widget
  /\ dirty' = a.dirty
  /\ search_result' = a.search_result
  /\ size' = a.size
  /\ pc' = IF a.err THEN "failed" ELSE "loop"
  /\ ops' = IF a.err THEN Append(a.ops, Terminal_drop) ELSE a.ops
  /\ released' = IF a.err THEN released + 1 ELSE released
  /\ tree' = tree

\* self.render().or_fail()?;
RunStart ==
  /\ pc = "start"
  /\ \E a \in App_render(Cur) : Leave(a)
  /\ UNCHANGED replay

\* one iteration of the loop, the terminal's input free
LoopEvent ==
  /\ pc = "loop"
  /\ ~exit
  /\ replay.script = <<>>
  /\ \E ev \in Events :
       \E a \in App_handle_event(Terminal_next_event(Cur, ev), ev) :
         /\ Len(a.grep.pattern) <= MaxPat
         /\ Leave(a)
  /\ UNCHANGED replay

\* one iteration of the loop, the terminal's input a scenario's
ReplayEvent ==
  /\ pc = "loop"
  /\ ~exit
  /\ replay.pos < Len(replay.script)
  /\ LET ev == replay.script[replay.pos + 1]
     IN \E a \in App_handle_event(Terminal_next_event(Cur, ev), ev) :
          /\ Leave(a)
          /\ replay' = [replay EXCEPT !.pos = @ + 1,
                                      !.searches = @ + Count(a.ops, "GrepOptions::call")]

\* self.terminal.next_event().or_fail()? returns Err
NextEventFails ==
  /\ pc = "loop"
  /\ ~exit
  /\ Leave(Fail(Log(Cur, Call("Terminal::next_event"))))
  /\ UNCHANGED replay

\* println!("{}", self.state.grep.command_string()): the options the printed
\* string is built from
Println(a) == Entry("println", <<>>, "", <<>>, << a.grep >>)

\* (mutant: the command string is printed while the terminal is still held)
RunExit_m ==
  /\ pc = "loop"
  /\ exit
  /\ pc' = "done"
  /\ ops' = << Println(Cur), Terminal_drop >>
  /\ released' = released + 1
  /\ UNCHANGED <<exit, widgets, grep, new_widget, dirty, search_result, size, replay, tree>>

\* std::mem::drop(self.terminal); println!(..); Ok(())
RunExit ==
  /\ pc = "loop"
  /\ exit
  /\ pc' = "done"
  /\ ops' = << Terminal_drop, Println(Cur) >>
  /\ released' = released + 1
  /\ UNCHANGED <<exit, widgets, grep, new_widget, dirty, search_result, size, replay, tree>>

Init ==
  /\ \E sz \in Sizes :
       LET a == App_new(sz)
       IN /\ exit = a.exit
          /\ widgets = a.widgets
          /\ grep = a.grep
          /\ new_widget = a.new_widget
          /\ dirty = a.dirty
          /\ search_result = a.search_result
          /\ size = a.size
  /\ pc = "start"
  /\ ops = <<>>
  /\ released = 0
  /\ replay \in {NoReplay} \cup Replays
  /\ tree = NoTree

\* a step of App::run that reads an event
ReadsEvent == LoopEvent \/ ReplayEvent \/ NextEventFails

Next == RunStart \/ LoopEvent \/ ReplayEvent \/ NextEventFails \/ RunExit

Spec == Init /\ [][Next]_vars

(***************************************************************************)
(* SpecDispatch: the same program with widgets of another kind already on  *)
(* the stack above the main view, to exercise App::handle_key_event with   *)
(* every behaviour trait Widget allows.                                    *)
(***************************************************************************)
RECURSIVE StackOfOthers(_)
StackOfOthers(k) ==
  IF k = 0 THEN << Widget("MainWidget", 0) >>
  ELSE Append(StackOfOthers(k - 1), Widget("OtherWidget", k))

InitDispatch ==
  /\ \E sz \in Sizes :
       LET a == App_new(sz)
       IN /\ exit = a.exit
          /\ grep = a.grep
          /\ new_widget = a.new_widget
          /\ dirty = a.dirty
          /\ search_result = a.search_result
          /\ size = a.size
  /\ \E k \in 1..(MaxDepth - 1) : widgets = StackOfOthers(k)
  /\ pc = "start"
  /\ ops = <<>>
  /\ released = 0
  /\ replay \in {NoReplay} \cup Replays
  /\ tree = NoTree

SpecDispatch == InitDispatch /\ [][Next]_vars

(***************************************************************************)
(* Definitions shared by the properties.                                   *)
(***************************************************************************)
\* every event of the model, the scenarios' included
AllEvents == Events \cup UNION { Range(s) : s \in Scripts }
KeyPresses == { ev \in AllEvents : ev.type = "Key" /\ ev.kind = "Press" }

\* App::run is about to read an event
Waiting == pc = "loop" /\ ~exit

\* the outcomes of reading ev and handling it in the current state
Outcomes(ev) == App_handle_event(Terminal_next_event(Cur, ev), ev)

Top == Last(widgets)
Searches(log) == Count(log, "GrepOptions::call")
HandlerCalls(log) == Count(log, "Widget::handle_key_event")
Has(log, op) == \E i \in 1..Len(log) : log[i].op = op

(***************************************************************************)
(* C1: starting from the stack [MainWidget], after any sequence of input   *)
(* events the widget stack holds at least one widget.                      *)
(***************************************************************************)
C1_StackNeverEmpty == Len(widgets) >= 1

\* a widget was popped and the stack is still not empty
C1_Witness == pc = "loop" /\ Has(ops, "pop") /\ Len(widgets) = 1

(***************************************************************************)
(* C2: when the top widget's key handler returns false and has set the     *)
(* pending slot, the stack after App::handle_key_event is the stack before *)
(* with the old top removed and the new widget pushed: the old widget is   *)
(* gone, the new one is on top, the widgets below are as they were, and    *)
(* the pending slot is empty.                                              *)
(***************************************************************************)
C2_PopThenPush ==
  [][ \A i \in 1..Len(ops') :
        (ops'[i].op = "return" /\ ops'[i].res = "false" /\ ops'[i].pending # <<>>)
        => /\ widgets # <<>>
           /\ ops'[i].w[1] = Last(widgets)
           /\ widgets' = Append(Front(widgets), ops'[i].pending[1])
           /\ Last(widgets') = ops'[i].pending[1]
           /\ ops'[i].w[1] \notin Range(widgets')
           /\ new_widget' = <<>>
    ]_vars

\* a handler has just returned false with a successor pending, below it
\* at least the main view
C2_Witness ==
  /\ pc = "loop"
  /\ Len(widgets) >= 2
  /\ \E i \in 1..Len(ops) :
       ops[i].op = "return" /\ ops[i].res = "false" /\ ops[i].pending # <<>>

\* the widget's key handler was called and returned Ok
HandlerOk(log) == \E i \in 1..Len(log) : log[i].op = "return" /\ log[i].res # "Err"
\* the position of the first call of op in the log, 0 when there is none
RECURSIVE IndexFrom(_, _, _)
IndexFrom(log, op, i) ==
  IF i > Len(log) THEN 0
  ELSE IF log[i].op = op THEN i ELSE IndexFrom(log, op, i + 1)
Index(log, op) == IndexFrom(log, op, 1)

(***************************************************************************)
(* C3 as stated: after every render pass (at startup, after a dirty key    *)
(* event, on a resize), whatever the terminal size, zero rows or zero      *)
(* columns included, the dirty flag is false.                              *)
(***************************************************************************)
C3_Original == (pc = "loop" /\ Has(ops, "App::render")) => ~dirty

(***************************************************************************)
(* C3, amended: a render pass on a terminal with rows and columns that     *)
(* returns Ok leaves the dirty flag false; on a terminal with zero rows or *)
(* zero columns App::render returns Ok at once and leaves the flag as it   *)
(* was.  Once false, the flag stays false until a key press that is handed *)
(* to a widget and changes the search options, the pattern, the search     *)
(* result or the widget stack, or is a Backspace in the pattern input.     *)
(***************************************************************************)
C3_DirtyDiscipline ==
  /\ pc \in {"start", "loop"} =>
       \A a \in App_render(Cur) :
         IF size.rows = 0 \/ size.cols = 0
           THEN ~a.err /\ a.dirty = dirty /\ ~Has(a.ops, "Terminal::draw_frame")
           ELSE ~a.err => ~a.dirty
  /\ (pc = "loop" /\ Has(ops, "dirty = false")) => ~dirty
  /\ (Waiting /\ ~dirty) =>
       \A ev \in AllEvents : \A a \in Outcomes(ev) :
         a.dirty =>
           /\ ev \in KeyPresses
           /\ HandlerCalls(a.ops) = 1
           /\ \/ a.grep # grep
              \/ Searches(a.ops) = 1 /\ HandlerOk(a.ops)
              \/ a.widgets # widgets
              \/ ev.code = "Backspace" /\ Top.kind = "SearchPatternInputWidget"

\* a render pass has drawn after a search and left the flag false
C3_Witness ==
  /\ pc = "loop"
  /\ Searches(ops) = 1
  /\ Has(ops, "dirty = false")
  /\ ~dirty

(***************************************************************************)
(* C4: when handling a key press changes the search options, the pattern   *)
(* or the search result and the widget's handler returns Ok, the dirty     *)
(* flag is true at the dirty check of App::handle_key_event and            *)
(* App::render is called before the event handling ends.                   *)
(***************************************************************************)
C4_MutationMarksDirty ==
  Waiting =>
    \A ev \in KeyPresses : \A a \in Outcomes(ev) :
      (/\ HandlerOk(a.ops)
       /\ \/ a.grep # grep
          \/ a.search_result # search_result
          \/ Searches(a.ops) >= 1)
      => /\ \E i \in 1..Len(a.ops) : a.ops[i].op = "if dirty" /\ a.ops[i].res = "true"
         /\ Index(a.ops, "App::render") > Index(a.ops, "if dirty")

\* a key press in the main view has run a search, and a render followed
C4_Witness ==
  /\ pc = "loop"
  /\ Len(widgets) = 1
  /\ Searches(ops) = 1
  /\ HandlerOk(ops)
  /\ Has(ops, "App::render")

\* the global quit keys: 'q', Esc, and 'c' with Control held
QuitPress(ev) ==
  /\ ev \in KeyPresses
  /\ \/ ev.code \in {"q", "Esc"}
     \/ ev.code = "c" /\ ev.ctrl
\* a key press with a printable, non-control character
PrintablePress(ev) ==
  /\ ev \in KeyPresses
  /\ ev.code \notin SpecialKeys
  /\ ev.code \notin ControlChars
WithoutLast(p) == IF p = <<>> THEN <<>> ELSE SubSeq(p, 1, Len(p) - 1)

(***************************************************************************)
(* C5 as stated: with the pattern-input widget on top, a key press with    *)
(* any printable, non-control character c, none excepted, appends c to the *)
(* pattern, and Backspace removes the pattern's last character; the stack  *)
(* is unchanged and no search runs.                                        *)
(***************************************************************************)
C5_Original ==
  (Waiting /\ Top.kind = "SearchPatternInputWidget") =>
    \A ev \in KeyPresses : \A a \in Outcomes(ev) :
      /\ PrintablePress(ev) =>
           /\ a.grep.pattern = Append(grep.pattern, ev.code)
           /\ a.widgets = widgets
           /\ Searches(a.ops) = 0
      /\ ev.code = "Backspace" =>
           /\ a.grep.pattern = WithoutLast(grep.pattern)
           /\ a.widgets = widgets
           /\ Searches(a.ops) = 0

(***************************************************************************)
(* C5, amended: with the pattern-input widget on top, a key press with a   *)
(* printable, non-control character c that is not a global quit key ('q',  *)
(* or 'c' with Control held) appends c to the pattern, and Backspace       *)
(* removes the pattern's last character (nothing when it is empty); the    *)
(* stack is unchanged and no search runs.  'q' and Control+'c' set the     *)
(* exit flag and leave the pattern as it was.                              *)
(***************************************************************************)
C5_PatternEditing ==
  (Waiting /\ Top.kind = "SearchPatternInputWidget") =>
    \A ev \in KeyPresses : \A a \in Outcomes(ev) :
      /\ (PrintablePress(ev) /\ ~QuitPress(ev)) =>
           /\ a.grep.pattern = Append(grep.pattern, ev.code)
           /\ a.widgets = widgets
           /\ Searches(a.ops) = 0
      /\ (PrintablePress(ev) /\ QuitPress(ev)) =>
           /\ a.grep.pattern = grep.pattern
           /\ a.exit
      /\ ev.code = "Backspace" =>
           /\ a.grep.pattern = WithoutLast(grep.pattern)
           /\ a.widgets = widgets
           /\ Searches(a.ops) = 0

\* the pattern-input widget is on top, holds two different characters and
\* has just handled a key
C5_Witness ==
  /\ pc = "loop"
  /\ Top.kind = "SearchPatternInputWidget"
  /\ Len(grep.pattern) = 2
  /\ grep.pattern[1] # grep.pattern[2]
  /\ HandlerOk(ops)

(***************************************************************************)
(* C6: a key press of 'q', Esc or Control+'c' sets the exit flag whatever  *)
(* the stack holds and bypasses the stack: no widget handler is called,    *)
(* the stack, the search options, the pattern, the search result and the   *)
(* pending slot are unchanged, no search runs, and App::run reads no       *)
(* further event.                                                          *)
(***************************************************************************)
C6_QuitBypassesStack ==
  /\ Waiting =>
       \A ev \in { e \in KeyPresses : QuitPress(e) } : \A a \in Outcomes(ev) :
           /\ a.exit
           /\ ~a.err
           /\ HandlerCalls(a.ops) = 0
           /\ Searches(a.ops) = 0
           /\ a.widgets = widgets
           /\ a.grep = grep
           /\ a.search_result = search_result
           /\ a.new_widget = new_widget
  /\ exit => ~ENABLED ReadsEvent

\* a quit key was pressed while the pattern-input widget was on top
C6_Witness ==
  /\ pc = "loop"
  /\ exit
  /\ Len(widgets) = 2
  /\ Top.kind = "SearchPatternInputWidget"

(***************************************************************************)
(* C7: in the main view with nothing pushed, a key press of 'i', 'a' or    *)
(* 'b' changes its own option only (ignore_case negated, after_context     *)
(* resp. before_context switched between 0 and 3), runs the search exactly *)
(* once and leaves the stack unchanged; 'i', 'a', 'b' from the default     *)
(* options end with ignore_case, after_context 3, before_context 3 and     *)
(* exactly 3 searches.                                                     *)
(***************************************************************************)
C7_MainViewToggles ==
  /\ (Waiting /\ Len(widgets) = 1 /\ Top.kind = "MainWidget") =>
       \A ev \in { e \in KeyPresses : e.code \in {"i", "a", "b"} } : \A a \in Outcomes(ev) :
         /\ ev.code = "i" =>
              /\ a.grep = [grep EXCEPT !.ignore_case = ~grep.ignore_case]
              /\ Searches(a.ops) = 1
              /\ a.widgets = widgets
         /\ ev.code = "a" =>
              /\ a.grep = [grep EXCEPT !.after_context = IF grep.after_context = 0 THEN 3 ELSE 0]
              /\ Searches(a.ops) = 1
              /\ a.widgets = widgets
         /\ ev.code = "b" =>
              /\ a.grep = [grep EXCEPT !.before_context = IF grep.before_context = 0 THEN 3 ELSE 0]
              /\ Searches(a.ops) = 1
              /\ a.widgets = widgets
  /\ (pc = "loop" /\ replay.script = ScenarioA \o << Press("q") >> /\ replay.pos = 3) =>
       /\ grep = [pattern |-> <<>>, ignore_case |-> TRUE,
                  before_context |-> 3, after_context |-> 3]
       /\ replay.searches = 3
       /\ widgets = << Widget("MainWidget", 0) >>

\* scenario A has been replayed to its end
C7_Witness ==
  /\ pc = "loop"
  /\ replay.script = ScenarioA \o << Press("q") >>
  /\ replay.pos = 3

(***************************************************************************)
(* C8: from the main view '/' pushes the pattern-input widget and runs no  *)
(* search; character and Backspace keys typed in it run no search; Enter   *)
(* runs the search exactly once with the current pattern and, the search   *)
(* done, pops the pattern-input widget, the main view on top again.        *)
(* '/', 'f', 'o', 'o', Backspace, Enter from an empty pattern end with the *)
(* pattern "fo", exactly one search and the stack [MainWidget].            *)
(***************************************************************************)
C8_PatternInputRoundTrip ==
  /\ (Waiting /\ Top.kind = "MainWidget") =>
       \A ev \in { e \in KeyPresses : e.code = "/" } : \A a \in Outcomes(ev) :
           /\ Searches(a.ops) = 0
           /\ Len(a.widgets) = Len(widgets) + 1
           /\ Front(a.widgets) = widgets
           /\ Last(a.widgets).kind = "SearchPatternInputWidget"
  /\ (Waiting /\ Top.kind = "SearchPatternInputWidget") =>
       \A ev \in KeyPresses : \A a \in Outcomes(ev) :
         /\ (ev.code \notin SpecialKeys \/ ev.code = "Backspace") => Searches(a.ops) = 0
         /\ ev.code = "Enter" =>
              /\ Searches(a.ops) = 1
              /\ a.ops[Index(a.ops, "GrepOptions::call")].arg = << grep >>
              /\ HandlerOk(a.ops) =>
                   /\ a.widgets = WithoutLast(widgets)
                   /\ Last(a.widgets).kind = "MainWidget"
  /\ (pc = "loop" /\ replay.script = ScenarioB \o << Press("q") >> /\ replay.pos = 6) =>
       /\ grep.pattern = << "f", "o" >>
       /\ replay.searches = 1
       /\ widgets = << Widget("MainWidget", 0) >>

\* scenario B has been replayed to its end
C8_Witness ==
  /\ pc = "loop"
  /\ replay.script = ScenarioB \o << Press("q") >>
  /\ replay.pos = 6

(***************************************************************************)
(* C9: a render pass on a terminal with rows and columns calls render on   *)
(* every widget of the stack once, bottom to top, against one Canvas, then *)
(* render_legend once, on the top widget, then hands one Frame to the      *)
(* terminal, then clears the dirty flag; and App::run makes one such pass  *)
(* before it reads the first event.                                        *)
(***************************************************************************)
C9_RenderPass ==
  /\ (pc \in {"start", "loop"} /\ size.rows > 0 /\ size.cols > 0) =>
       \A a \in App_render(Cur) :
         LET drawn == << Call("App::render"), Call("Canvas::new") >>
                      \o [i \in 1..Len(widgets) |-> CallOn("Widget::render", widgets[i])]
                      \o << CallOn("Widget::render_legend", widgets[Len(widgets)]),
                            Call("Terminal::draw_frame") >>
         IN IF a.err THEN a.ops = drawn
            ELSE a.ops = drawn \o << Call("dirty = false") >> /\ ~a.dirty
  /\ pc = "start" => (ops = <<>> /\ ENABLED RunStart /\ ~ENABLED ReadsEvent)
  /\ (pc # "start" /\ ~Has(ops, "Terminal::next_event") /\ pc # "done") =>
       /\ Len(ops) >= 1
       /\ ops[1] = Call("App::render")
       /\ Count(ops, "App::render") = 1

\* a pass has drawn a stack of two widgets
C9_Witness ==
  /\ pc = "loop"
  /\ Len(widgets) = 2
  /\ Count(ops, "Widget::render") = 2
  /\ Count(ops, "Widget::render_legend") = 1
  /\ Has(ops, "dirty = false")

(***************************************************************************)
(* C10: a resize event always causes a render pass, the dirty flag set or  *)
(* not, and leaves the widget stack, the search options, the pattern and   *)
(* the search result unchanged.                                            *)
(***************************************************************************)
C10_ResizeRenders ==
  Waiting =>
    \A ev \in { e \in AllEvents : e.type = "Resize" } : \A a \in Outcomes(ev) :
        /\ Count(a.ops, "App::render") = 1
        /\ (ev.size.rows > 0 /\ ev.size.cols > 0) => Count(a.ops, "Terminal::draw_frame") = 1
        /\ a.widgets = widgets
        /\ a.grep = grep
        /\ a.search_result = search_result

\* a resize was handled with the flag clear, after the options had changed:
\* only a resize reads an event and renders without a dirty check
C10_Witness ==
  /\ pc = "loop"
  /\ ~exit
  /\ grep.ignore_case
  /\ Len(ops) >= 3
  /\ ops[1] = Call("Terminal::next_event")
  /\ ops[2] = Call("App::render")
  /\ Has(ops, "dirty = false")

\* handling the event left the App as the step found it (the log apart)
SameApp(a) ==
  /\ a.exit = exit
  /\ a.widgets = widgets
  /\ a.grep = grep
  /\ a.new_widget = new_widget
  /\ a.dirty = dirty
  /\ a.search_result = search_result
  /\ a.size = size
  /\ ~a.err

(***************************************************************************)
(* C11: a focus-gained, focus-lost, mouse or paste event changes nothing:  *)
(* the widget stack, the search options, the pattern, the search result,   *)
(* the dirty flag, the pending slot and the exit flag are as before, and   *)
(* nothing is called after the event is read: no handler, no search and no *)
(* render pass, whether the dirty flag is set or not.                      *)
(***************************************************************************)
C11_OtherEventsIgnored ==
  Waiting =>
    \A ev \in { e \in AllEvents : e.type \in {"FocusGained", "FocusLost", "Mouse", "Paste"} } :
      \A a \in Outcomes(ev) :
        /\ SameApp(a)
        /\ a.ops = << Call("Terminal::next_event") >>

\* such an event was read while the dirty flag was set (on a terminal
\* without rows or columns the flag survives the render), and nothing else
\* was called
C11_Witness ==
  /\ pc = "loop"
  /\ dirty
  /\ ops = << Call("Terminal::next_event") >>

(***************************************************************************)
(* C12: on a terminal with zero rows or zero columns App::render returns   *)
(* Ok without calling render or render_legend on any widget and without    *)
(* handing a Frame to the terminal, whatever the stack and the state.      *)
(***************************************************************************)
C12_EmptyTerminalSkipsRender ==
  (pc \in {"start", "loop"} /\ (size.rows = 0 \/ size.cols = 0)) =>
    \A a \in App_render(Cur) :
      /\ ~a.err
      /\ ~Has(a.ops, "Widget::render")
      /\ ~Has(a.ops, "Widget::render_legend")
      /\ ~Has(a.ops, "Canvas::new")
      /\ ~Has(a.ops, "Terminal::draw_frame")
      /\ a.ops = << Call("App::render") >>

\* App::render was called with two widgets on the stack, a changed pattern
\* and the dirty flag set, on a terminal without columns, and drew nothing
C12_Witness ==
  /\ pc = "loop"
  /\ size.rows > 0
  /\ size.cols = 0
  /\ Len(widgets) = 2
  /\ grep.pattern # <<>>
  /\ dirty
  /\ Has(ops, "App::render")
  /\ ~Has(ops, "Widget::render")
  /\ ~Has(ops, "Terminal::draw_frame")

\* the widget's key handler was called and returned Err: the search failed
HandlerErr(log) == \E i \in 1..Len(log) : log[i].op = "return" /\ log[i].res = "Err"

(***************************************************************************)
(* C13: when the search fails during a key handler ('a', 'b', 'i' in the   *)
(* main view, Enter in the pattern input), the error leaves                *)
(* App::handle_key_event and App::run: the stored search result is not     *)
(* replaced, no widget is popped or pushed, no render pass follows the     *)
(* failure, no further event is read and the command string is not         *)
(* printed.                                                                *)
(***************************************************************************)
C13_SearchFailurePropagates ==
  /\ Waiting =>
       \A ev \in { e \in KeyPresses : e.code \in {"a", "b", "i", "Enter"} } :
         \A a \in Outcomes(ev) :
         HandlerErr(a.ops) =>
           /\ a.err
           /\ Searches(a.ops) = 1
           /\ a.search_result = search_result
           /\ a.widgets = widgets
           /\ ~Has(a.ops, "pop")
           /\ ~Has(a.ops, "push")
           /\ ~Has(a.ops, "App::render")
           /\ ~Has(a.ops, "if dirty")
           /\ Last(a.ops).op = "return"
  /\ (pc = "loop" /\ Has(ops, "return")) => ~HandlerErr(ops)
  /\ pc = "failed" =>
       /\ ~ENABLED ReadsEvent
       /\ ~ENABLED RunExit
       /\ ~ENABLED Next
       /\ ~Has(ops, "println")

\* the search run by Enter in the pattern input failed, after an earlier
\* search had replaced the stored result, and App::run has ended with the
\* pattern-input widget still on the stack
C13_Witness ==
  /\ pc = "failed"
  /\ HandlerErr(ops)
  /\ Len(widgets) = 2
  /\ search_result # SearchResult_default

(***************************************************************************)
(* C14: on a normal quit the terminal is released first, then the command  *)
(* string built from the final search options is printed, and the print is *)
(* the last thing App::run does: no frame is drawn, no event is read and   *)
(* no search runs after the release.                                       *)
(***************************************************************************)
C14_ReleaseThenPrint ==
  /\ (pc = "loop" /\ exit) =>
       /\ released = 0
       /\ ENABLED RunExit
       /\ ~ENABLED ReadsEvent
       /\ ~ENABLED RunStart
  /\ pc = "done" =>
       /\ exit
       /\ released = 1
       /\ ops = << Call("drop(terminal)"),
                   Entry("println", <<>>, "", <<>>, << grep >>) >>
       /\ Index(ops, "drop(terminal)") < Index(ops, "println")
       /\ ~Has(ops, "Terminal::draw_frame")
       /\ ~Has(ops, "Terminal::next_event")
       /\ ~Has(ops, "GrepOptions::call")
       /\ ~ENABLED Next

\* App::run has ended on a quit key after the options and the pattern had
\* been changed
C14_Witness ==
  /\ pc = "done"
  /\ grep.ignore_case
  /\ grep.after_context = ContextLines
  /\ Len(grep.pattern) = 2
  /\ Has(ops, "println")

(***************************************************************************)
(* C15: on every path by which App::run ends after the terminal was        *)
(* acquired (a normal quit, a failed read of the input, a failed render or *)
(* output, a failed search), the terminal is released exactly once before  *)
(* the process ends; while App::run goes on it is not released.            *)
(***************************************************************************)
C15_TerminalReleasedOnce ==
  /\ pc \in {"start", "loop"} => released = 0
  /\ pc \in {"done", "failed"} =>
       /\ released = 1
       /\ Count(ops, "drop(terminal)") = 1
       /\ ~ENABLED Next
  /\ pc = "failed" => Last(ops) = Terminal_drop

\* App::run has ended on a failed draw_frame, with the pattern input open
C15_Witness ==
  /\ pc = "failed"
  /\ Len(widgets) = 2
  /\ Len(ops) >= 2
  /\ ops[Len(ops) - 1] = Call("Terminal::draw_frame")
  /\ released = 1

(***************************************************************************)
(* C17: a key press that is not a global quit key goes to the handler of   *)
(* the top widget and to no other.  While the pattern-input widget is on   *)
(* top no key press changes ignore_case, before_context or after_context,  *)
(* and no key press other than Enter runs a search.                        *)
(***************************************************************************)
C17_TopWidgetOnly ==
  Waiting =>
    \A ev \in KeyPresses : \A a \in Outcomes(ev) :
      /\ ~QuitPress(ev) =>
           /\ HandlerCalls(a.ops) = 1
           /\ a.ops[Index(a.ops, "Widget::handle_key_event")].w = << Top >>
      /\ Top.kind = "SearchPatternInputWidget" =>
           /\ a.grep.ignore_case = grep.ignore_case
           /\ a.grep.before_context = grep.before_context
           /\ a.grep.after_context = grep.after_context
           /\ ev.code # "Enter" => Searches(a.ops) = 0

\* 'i' was typed into the pattern input, which is still on top: the pattern
\* holds it and ignore_case is as App::new left it
C17_Witness ==
  /\ pc = "loop"
  /\ Top.kind = "SearchPatternInputWidget"
  /\ grep.pattern = << "i" >>
  /\ ~grep.ignore_case
  /\ HandlerOk(ops)
  /\ Searches(ops) = 0

(***************************************************************************)
(* C18: with MainWidget and SearchPatternInputWidget the stack is, in      *)
(* every reachable state, [MainWidget] or [MainWidget,                     *)
(* SearchPatternInputWidget]: the main view is always at the bottom and is *)
(* never popped (its handler returns true whenever it returns Ok), and the *)
(* stack is never deeper than 2.                                           *)
(***************************************************************************)
C18_StackShapes ==
  /\ [i \in 1..Len(widgets) |-> widgets[i].kind]
       \in { << "MainWidget" >>, << "MainWidget", "SearchPatternInputWidget" >> }
  /\ widgets[1] = Widget("MainWidget", 0)
  /\ Len(widgets) <= 2
  /\ (Waiting /\ Top.kind = "MainWidget") =>
       \A ev \in KeyPresses : \A a \in Outcomes(ev) :
         /\ ~Has(a.ops, "pop")
         /\ \A i \in 1..Len(a.ops) : a.ops[i].op = "return" => a.ops[i].res # "false"

\* the pattern input was opened with '/', a pattern typed, and Enter has
\* popped it: the main view alone is left
C18_Witness ==
  /\ pc = "loop"
  /\ Len(widgets) = 1
  /\ grep.pattern # <<>>
  /\ Has(ops, "pop")
  /\ ~Has(ops, "push")

(***************************************************************************)
(* C19: whenever App::run waits for the next input event the pending slot  *)
(* is empty: a widget a handler puts into the slot is pushed while the     *)
(* same event is handled, exactly once, and never by a later event.        *)
(***************************************************************************)
C19_PendingSlotEmptyBetweenEvents ==
  /\ pc = "loop" => new_widget = <<>>
  /\ Waiting =>
       \A ev \in AllEvents : \A a \in Outcomes(ev) :
         /\ Count(a.ops, "push") <= 1
         /\ \A i \in 1..Len(a.ops) :
              /\ (a.ops[i].op = "return" /\ a.ops[i].res # "Err" /\ a.ops[i].pending # <<>>) =>
                   /\ Count(a.ops, "push") = 1
                   /\ a.ops[Index(a.ops, "push")].w = a.ops[i].pending
                   /\ Index(a.ops, "push") > i
                   /\ Last(a.widgets) = a.ops[i].pending[1]
                   /\ a.ops[i].pending[1] \notin Range(Front(a.widgets))
                   /\ a.new_widget = <<>>
              /\ a.ops[i].op = "push" =>
                   \E j \in 1..(i - 1) :
                     a.ops[j].op = "return" /\ a.ops[j].pending = a.ops[i].w
         /\ ~a.err => a.new_widget = <<>>

\* '/' has put the pattern-input widget into the slot and it was pushed
C19_Witness ==
  /\ pc = "loop"
  /\ new_widget = <<>>
  /\ Has(ops, "push")
  /\ \E i \in 1..Len(ops) : ops[i].op = "return" /\ ops[i].pending = << Top >>

(***************************************************************************)
(* C20: a key event whose kind is not Press (a release or a repeat), with  *)
(* any key code, the quit keys included, changes nothing: the exit flag,   *)
(* the stack, the options, the pattern, the search result and the dirty    *)
(* flag are as before, no widget handler is called, no search runs and no  *)
(* render pass runs, even when the dirty flag is set.                      *)
(***************************************************************************)
C20_NonPressKeysIgnored ==
  Waiting =>
    \A ev \in { e \in AllEvents : e.type = "Key" /\ e.kind # "Press" } :
      \A a \in Outcomes(ev) :
        /\ SameApp(a)
        /\ HandlerCalls(a.ops) = 0
        /\ Searches(a.ops) = 0
        /\ ~Has(a.ops, "App::render")
        /\ a.ops = << Call("Terminal::next_event"), Call("App::handle_key_event") >>

\* a key event reached App::handle_key_event while the dirty flag was set
\* and nothing was called after it: only a release or a repeat does that
C20_Witness ==
  /\ pc = "loop"
  /\ ~exit
  /\ dirty
  /\ ops = << Call("Terminal::next_event"), Call("App::handle_key_event") >>

\* the highlight spans of the i-th line drawn
LineSpans(i) == MatchedColumns(tree.result, tree.lines[i])
\* the calls Tree::render_lines makes on the canvas for the i-th line are
\* the prefix, the text, one overlay per span and the newline; the position
\* of the first of them in the canvas' log
RECURSIVE FirstCall(_)
FirstCall(i) == IF i = 1 THEN 1 ELSE FirstCall(i - 1) + 3 + Len(LineSpans(i - 1))
CallOf(i, j) == tree.canvas.log[FirstCall(i) + (j - 1)]
\* the cursor recorded after the line-number prefix of the i-th line
Base(i) == CallOf(i, 1).after
\* column col of the base row lies in the j-th span of the i-th line
InSpan(i, j, col) ==
  /\ Base(i).col + LineSpans(i)[j].column_offset <= col
  /\ col < Base(i).col + LineSpans(i)[j].column_offset + LineSpans(i)[j].text_chars

(***************************************************************************)
(* C16: for every line Tree::render_lines draws and every highlight span   *)
(* {column_offset, text_chars} of the line, the reverse-styled overlay is  *)
(* written after the line's text, on the row of the text, from the column  *)
(* (cursor column recorded after the line-number prefix) + column_offset   *)
(* on, text_chars characters long, each equal to the character of the text *)
(* at its column; the cursor that the newline then starts from is the      *)
(* cursor after the text, not moved by the overlays.  In the canvas, the    *)
(* cells of the row that hold the text show the text, reverse inside a     *)
(* span and default style outside, the cells before the text default       *)
(* style (cells that fall outside the canvas do not exist).                *)
(***************************************************************************)
C16_HighlightOverlay ==
  tree.phase = "drawn" =>
    /\ Len(tree.canvas.log) + 1 = FirstCall(Len(tree.lines) + 1)
    /\ \A i \in 1..Len(tree.lines) :
         LET line == tree.lines[i]
             spans == LineSpans(i)
             base == Base(i)
             text == CallOf(i, 2)
             newline == CallOf(i, 3 + Len(spans))
         IN /\ CallOf(i, 1).op = "draw"
            /\ text = CanvasCall("draw", base, Token_new(line.text),
                                 TokenPosition(base.row, base.col + Len(line.text)))
            /\ \A j \in 1..Len(spans) :
                 LET overlay == CallOf(i, 2 + j)
                 IN /\ overlay.op = "draw_at"
                    /\ overlay.tok.style = "Reverse"
                    /\ overlay.pos.row = base.row
                    /\ overlay.pos.col = base.col + spans[j].column_offset
                    /\ Len(overlay.tok.text) = spans[j].text_chars
                    /\ \A m \in 1..spans[j].text_chars :
                         overlay.tok.text[m] = line.text[spans[j].column_offset + m]
                    /\ overlay.after = text.after
            /\ newline.op = "newline"
            /\ newline.pos = text.after
            /\ newline.after = TokenPosition(base.row + 1, 0)
            /\ base.row < size.rows =>
                 \A col \in 0..(size.cols - 1) :
                   LET cell == tree.canvas.cells[<< base.row, col >>]
                   IN IF base.col <= col /\ col < base.col + Len(line.text)
                        THEN /\ cell.ch = line.text[(col - base.col) + 1]
                             /\ cell.style = IF \E j \in 1..Len(spans) : InSpan(i, j, col)
                                               THEN "Reverse" ELSE "Plain"
                        ELSE cell.style = "Plain"

\* two lines were drawn and the second, inside the canvas with all its
\* text, has two spans and a character outside both
C16_Witness ==
  /\ tree.phase = "drawn"
  /\ Len(tree.lines) = 2
  /\ Len(LineSpans(1)) = 1
  /\ Len(LineSpans(2)) = 2
  /\ Base(2).row < size.rows
  /\ Base(2).col + Len(tree.lines[2].text) <= size.cols
  /\ \E col \in Base(2).col..(size.cols - 1) :
       /\ col < Base(2).col + Len(tree.lines[2].text)
       /\ tree.canvas.cells[<< Base(2).row, col >>].style = "Plain"
  /\ \E col \in Base(2).col..(size.cols - 1) :
       tree.canvas.cells[<< Base(2).row, col >>].style = "Reverse"

====
